---- MODULE Spec2Model ----
(***************************************************************************)
(* Model of the storefront's resilient API-access layer                    *)
(* (src/unnamed/part_006: class CircuitBreaker, class APIClient).          *)
(*                                                                         *)
(*   Spec             the CircuitBreaker class driven by concurrent        *)
(*                    execute() calls with abstract wrapped operations,    *)
(*                    the monitoring timer and the clock.                  *)
(*   SpecExec         one logical APIClient.request() call: request        *)
(*                    interceptors, the service's breaker, the retry loop  *)
(*                    of executeRequest, the metrics and token-refresh     *)
(*                    interceptors and the re-issued request.              *)
(*   SpecSession      logical requests made one after another through one  *)
(*                    APIClient, to the urls of every service, against a   *)
(*                    backend that gives a fixed set of answers.           *)
(*   SpecMetrics      APIClient.metrics under the attempts of concurrent   *)
(*                    requests and resetMetrics.                           *)
(*   SpecExecLive     SpecExec with every fetch returning and every timer  *)
(*                    firing (weak fairness), for termination.             *)
(*   SpecConcurrent   logical requests in flight at the same time through  *)
(*                    one APIClient, sharing its breakers, metrics and     *)
(*                    the stored session.                                  *)
(*   SpecProbe        Spec with the monitoring timer and the clock under   *)
(*                    weak fairness, for OPEN leading to HALF_OPEN.        *)
(*   SpecShouldRetry  APIClient.shouldRetry applied to an error.           *)
(*   SpecRetryDelay   APIClient.calculateRetryDelay applied to an attempt  *)
(*                    index and a base delay.                              *)
(***************************************************************************)
EXTENDS Integers, Sequences, FiniteSets, TLC

\* ------------------------------------------------------------------ bounds
MaxThreshold == 3
MaxTimeout == 2
MaxPeriod == 2
MaxTime == 4
NumCallers == 2
MaxRetries == 2
MaxAttempt == 5
FetchLatency == 40
MaxRequests == 6
MaxMixedRequests == 3
MaxUpdates == 4
MaxInflight == 2
MaxResets == 1

\* ------------------------------------------------------- program constants
BreakerThreshold == 5
BreakerTimeout == 60000
BreakerMonitoringPeriod == 10000
DefaultTimeout == 10000
DefaultRetryDelay == 1000
MaxRetryDelay == 30000
JitterRange == 1000
MetricsWindow == 100

Callers == 1..NumCallers

VARIABLES
    breaker,     \* the CircuitBreaker object's fields
    now,         \* Date.now()
    \* --- Spec: callers of one breaker
    timerDue,    \* when the setInterval callback of startMonitoring is next due
    calls,       \* per caller: "idle", or "running" (awaiting operation())
    admitted,    \* per caller: breaker state seen by the running call's check
    streak,      \* history: a run of back-to-back failing calls from a fresh
                 \* breaker: its failures, its invocations of the operation,
                 \* and the failures of the run that a success ended before it
    last,        \* history: the step taken last
    circuitEvents, \* circuit:open / circuit:closed events emitted on EventBus
    \* --- SpecExec: one logical request
    pc,          \* where the logical request is suspended
    depth,       \* 1: the caller's request; 2: the request re-issued after a refresh
    cfg,         \* the processed config of the running executeRequest
    attempt,     \* the loop variable of the running executeRequest
    pending,     \* the suspended outer executeRequest: its error and attempt
    sleepDelay,  \* the backoff delay being slept
    metrics,     \* APIClient.metrics
    storage,     \* localStorage: the stored user session and cart
    authEvents,  \* number of auth:failure events emitted
    location,    \* window.location
    fetches,     \* history: fetch calls to the request's url
    sleeps,      \* history: backoff sleeps
    refreshes,   \* history: fetch calls to the refresh endpoint
    answers,     \* history: the server's answers to the fetch calls, in order
    outcome,     \* how the caller's promise settled
    circuitBreakers, \* APIClient.circuitBreakers: service -> CircuitBreaker
    reissues,    \* history: calls of this.request(config) by the refresh interceptor
    telemetry,   \* whether window.telemetryClient is installed
    traces,      \* number of sendTrace calls made on the telemetry client
    before,      \* history: circuitBreakers when the logical request was made
    served,      \* history: number of logical requests settled before this one
    server,      \* the answers the backend gives to a fetch call
    refreshResult, \* history: how the fetch of the refresh endpoint ended
    tally,       \* history, per service: the requests in a row that ended in
                 \* the same failing answer of the backend
    twin,        \* the same client without a telemetry client, given the same
                 \* calls and answers
    issued,      \* the newest token the auth service has issued
    \* --- SpecConcurrent: logical requests in flight at the same time
    requests,    \* per caller: the locals of its request() call
    session,     \* history: whose refresh stored the session now in storage,
                 \* and the requests in flight when it did
    \* --- SpecMetrics: attempts of concurrent requests
    inflight,    \* attempts that have counted totalRequests and await their fetch
    durations,   \* history: the durations given to updateMetrics since the reset
    resets,      \* history: number of resetMetrics calls
    \* --- SpecShouldRetry, SpecRetryDelay: a function's argument and result
    arg,
    res

coreVars == <<breaker, now>>

callerVars == <<timerDue, calls, admitted, streak, last, circuitEvents>>

requestVars == <<pc, depth, cfg, attempt, pending, sleepDelay, storage,
                 authEvents, location, fetches, sleeps, refreshes, answers,
                 outcome, circuitBreakers, reissues, telemetry, traces, before,
                 served, server, refreshResult, tally, twin, issued>>

execVars == <<metrics, requestVars>>

metricsVars == <<inflight, durations, resets>>

fnVars == <<arg, res>>

concVars == <<requests, session>>

vars == <<coreVars, callerVars, execVars, metricsVars, fnVars, concVars>>

\* --------------------------------------------------------- CircuitBreaker

\* constructor(threshold, timeout, monitoringPeriod) at time t
CircuitBreaker(threshold, timeout, monitoringPeriod, t) ==
    [threshold |-> threshold,
     timeout |-> timeout,
     monitoringPeriod |-> monitoringPeriod,
     failureCount |-> 0,
     lastFailureTime |-> -1,
     state |-> "CLOSED",
     nextAttempt |-> t]

startMonitoring_IgnoresCooldown(cb, t) ==
    IF cb.state = "OPEN" THEN [cb EXCEPT !.state = "HALF_OPEN"] ELSE cb

\* the setInterval callback installed by startMonitoring()
startMonitoring(cb, t) ==
    IF cb.state = "OPEN" /\ t >= cb.nextAttempt
    THEN [cb EXCEPT !.state = "HALF_OPEN"]
    ELSE cb

onSuccess_NoReset(cb) ==
    IF cb.state = "HALF_OPEN" THEN [cb EXCEPT !.state = "CLOSED"] ELSE cb

onSuccess_AlwaysClose(cb) ==
    [cb EXCEPT !.failureCount = 0, !.state = "CLOSED"]

onSuccess_ResetsWhenClosing(cb) ==
    IF cb.state = "HALF_OPEN"
    THEN [cb EXCEPT !.failureCount = 0, !.state = "CLOSED"]
    ELSE cb

onSuccess(cb) ==
    LET reset == [cb EXCEPT !.failureCount = 0]
    IN  IF reset.state = "HALF_OPEN"
        THEN [reset EXCEPT !.state = "CLOSED"]
        ELSE reset

onFailure_StrictlyGreater(cb, t) ==
    LET counted == [cb EXCEPT !.failureCount = @ + 1, !.lastFailureTime = t]
    IN  IF counted.failureCount > counted.threshold
        THEN [counted EXCEPT !.state = "OPEN", !.nextAttempt = t + counted.timeout]
        ELSE counted

onFailure(cb, t) ==
    LET counted == [cb EXCEPT !.failureCount = @ + 1, !.lastFailureTime = t]
    IN  IF counted.failureCount >= counted.threshold
        THEN [counted EXCEPT !.state = "OPEN", !.nextAttempt = t + counted.timeout]
        ELSE counted

\* --------------------------------------------------------------- errors

\* new APIError(message, status, code, details); `id` tells the instances
\* apart: the number of the fetch call that produced the error.
APIError(status, id) ==
    [name |-> "APIError", hasStatus |-> TRUE, status |-> status, id |-> id]

\* an error without a status property: fetch's TypeError, the AbortError of
\* an aborted fetch, the SyntaxError of response.json(), a plain Error
NativeError(name, id) ==
    [name |-> name, hasStatus |-> FALSE, status |-> 0, id |-> id]

\* new Error('Circuit breaker is OPEN - service unavailable')
CircuitOpenError == NativeError("CircuitOpen", 0)

\* new Error('No refresh token available'), new Error('Token refresh failed')
\* or the error thrown by the refresh fetch
RefreshError(name) == NativeError(name, 0)

NoError == NativeError("none", 0)

\* ------------------------------------------------------------- APIClient

shouldRetry_NoRateLimit(error) ==
    \/ error.name = "AbortError"
    \/ error.name = "TypeError"
    \/ (error.hasStatus /\ error.status >= 500 /\ error.status < 600)

shouldRetry_TimeoutsOnly(error) ==
    \/ error.name = "AbortError"
    \/ error.name = "TypeError"

shouldRetry_AnyStatus(error) ==
    \/ error.name = "AbortError"
    \/ error.name = "TypeError"
    \/ (error.hasStatus /\ error.status >= 400 /\ error.status < 600)

\* a comparison with an undefined status is false
shouldRetry(error) ==
    \/ error.name = "AbortError"
    \/ error.name = "TypeError"
    \/ (error.hasStatus /\ error.status >= 500 /\ error.status < 600)
    \/ (error.hasStatus /\ error.status = 429)

RECURSIVE Pow2(_)
Pow2(n) == IF n = 0 THEN 1 ELSE 2 * Pow2(n - 1)

Min(a, b) == IF a <= b THEN a ELSE b

\* Math.random() * 1000 lies in [0, 1000): whole milliseconds here
Jitters == {0, 1, JitterRange \div 2, JitterRange - 1}

calculateRetryDelay_CapBeforeJitter(attemptIndex, baseDelay, jitter) ==
    Min(baseDelay * Pow2(attemptIndex), MaxRetryDelay) + jitter

calculateRetryDelay(attemptIndex, baseDelay, jitter) ==
    LET exponentialDelay == baseDelay * Pow2(attemptIndex)
    IN  Min(exponentialDelay + jitter, MaxRetryDelay)

\* url.includes('/products') and so on, the url given as its path segments
Includes(url, segment) == \E i \in 1..Len(url) : url[i] = segment

getServiceFromUrl(url) ==
    IF Includes(url, "products") THEN "products"
    ELSE IF Includes(url, "auth") THEN "auth"
    ELSE IF Includes(url, "orders") THEN "orders"
    ELSE "unknown"

\* initializeCircuitBreakers: the services that have a breaker
Services == {"products", "auth", "orders"}

\* the breaker initializeCircuitBreakers makes for a service
ClientBreaker ==
    CircuitBreaker(BreakerThreshold, BreakerTimeout, BreakerMonitoringPeriod, 0)

\* APIClient.circuitBreakers after construction
FreshBreakers == [s \in Services |-> ClientBreaker]

updateMetrics_DropsNewest(m, success, duration) ==
    LET counted == IF success
                   THEN [m EXCEPT !.successfulRequests = @ + 1]
                   ELSE [m EXCEPT !.failedRequests = @ + 1]
        pushed == Append(counted.requestTimes, duration)
    IN  [counted EXCEPT !.requestTimes =
            IF Len(pushed) > MetricsWindow
            THEN SubSeq(pushed, 1, MetricsWindow)
            ELSE pushed]

updateMetrics_WindowedCounters(m, success, duration) ==
    LET full == Len(m.requestTimes) >= MetricsWindow
        counted == IF success
                   THEN [m EXCEPT !.successfulRequests = IF full THEN 1 ELSE @ + 1]
                   ELSE [m EXCEPT !.failedRequests = IF full THEN 1 ELSE @ + 1]
        pushed == Append(counted.requestTimes, duration)
    IN  [counted EXCEPT !.requestTimes =
            IF Len(pushed) > MetricsWindow THEN Tail(pushed) ELSE pushed]

\* averageResponseTime is the mean of requestTimes and is not kept apart
updateMetrics(m, success, duration) ==
    LET counted == IF success
                   THEN [m EXCEPT !.successfulRequests = @ + 1]
                   ELSE [m EXCEPT !.failedRequests = @ + 1]
        pushed == Append(counted.requestTimes, duration)
    IN  [counted EXCEPT !.requestTimes =
            IF Len(pushed) > MetricsWindow THEN Tail(pushed) ELSE pushed]

NewMetrics ==
    [totalRequests |-> 0, successfulRequests |-> 0, failedRequests |-> 0,
     requestTimes |-> <<>>]

\* handleAuthenticationFailure on the storage: both keys are removed
NoUser == [present |-> FALSE, token |-> 0, refreshToken |-> FALSE]

handleAuthenticationFailure(store) == [user |-> NoUser, cart |-> FALSE]

\* ------------------------------------------------- history bookkeeping

NoStreak == [fails |-> -1, ops |-> -1, prior |-> -1]

\* a run that starts on a breaker that is CLOSED with failureCount 0
NewStreak(prior) == [fails |-> 0, ops |-> 0, prior |-> prior]

InFlight == {c \in Callers : calls[c] = "running"}

Pristine(cb) == cb.state = "CLOSED" /\ cb.failureCount = 0

\* the step taken last on the breaker: its kind, the breaker state it found and
\* the streak it found
Event(kind, cb) == [kind |-> kind, pre |-> cb.state, run |-> streak.fails]

\* the variables a specification does not use keep these values
CallersIdle ==
    /\ timerDue = 0
    /\ calls = [c \in Callers |-> "idle"]
    /\ admitted = [c \in Callers |-> "none"]
    /\ streak = NewStreak(-1)
    /\ last = [kind |-> "init", pre |-> "CLOSED", run |-> 0]
    /\ circuitEvents = <<>>

NoConfig ==
    [url |-> <<>>, retries |-> 0, retryDelay |-> 0, timeout |-> 0,
     retry |-> FALSE, startTime |-> 0, authorization |-> 0]

NoPending == [error |-> NoError, attempt |-> 0, cfg |-> NoConfig]

Unsettled == [kind |-> "pending", error |-> NoError]

NoTally == [name |-> "none", status |-> 0, n |-> 0]

\* the locals of a request() call that has not been made
NoRequest ==
    [pc |-> "off", depth |-> 0, cfg |-> NoConfig, attempt |-> 0,
     pending |-> NoPending, sleepDelay |-> 0, fetches |-> 0, sleeps |-> 0,
     refreshes |-> 0, reissues |-> 0, outcome |-> Unsettled, since |-> 0]

IdleWorld ==
    [pc |-> "off", depth |-> 0, cfg |-> NoConfig, attempt |-> 0,
     pending |-> NoPending, sleepDelay |-> 0, metrics |-> NewMetrics,
     storage |-> [user |-> NoUser, cart |-> FALSE], authEvents |-> 0,
     location |-> "/", fetches |-> 0, sleeps |-> 0, refreshes |-> 0,
     circuitBreakers |-> FreshBreakers, outcome |-> Unsettled, reissues |-> 0,
     telemetry |-> FALSE, traces |-> 0, issued |-> 0]

RequestIdle ==
    /\ pc = "off"
    /\ depth = 0
    /\ cfg = NoConfig
    /\ attempt = 0
    /\ pending = NoPending
    /\ sleepDelay = 0
    /\ storage = [user |-> NoUser, cart |-> FALSE]
    /\ authEvents = 0
    /\ location = "/"
    /\ fetches = 0
    /\ sleeps = 0
    /\ refreshes = 0
    /\ answers = <<>>
    /\ outcome = Unsettled
    /\ circuitBreakers = FreshBreakers
    /\ reissues = 0
    /\ telemetry = FALSE
    /\ traces = 0
    /\ before = FreshBreakers
    /\ served = 0
    /\ server = {}
    /\ refreshResult = "none"
    /\ tally = [s \in Services |-> NoTally]
    /\ twin = IdleWorld
    /\ issued = 0

ExecIdle ==
    /\ metrics = NewMetrics
    /\ RequestIdle

MetricsIdle ==
    /\ inflight = 0
    /\ durations = <<>>
    /\ resets = 0

FnIdle ==
    /\ arg = NoError
    /\ res = [done |-> FALSE, value |-> FALSE]

NoSession == [by |-> 0, inflight |-> {}]

ConcIdle ==
    /\ requests = [c \in Callers |-> NoRequest]
    /\ session = NoSession

\* ------------------------------------------------------------------ Spec

Init ==
    /\ now = 0
    /\ \E th \in 1..MaxThreshold, to \in 1..MaxTimeout, mp \in 1..MaxPeriod :
          /\ breaker = CircuitBreaker(th, to, mp, 0)
          /\ timerDue = mp
    /\ calls = [c \in Callers |-> "idle"]
    /\ admitted = [c \in Callers |-> "none"]
    /\ streak = NewStreak(-1)
    /\ last = [kind |-> "init", pre |-> "CLOSED", run |-> 0]
    /\ circuitEvents = <<>>
    /\ ExecIdle
    /\ MetricsIdle
    /\ ConcIdle
    /\ FnIdle

\* execute(operation) up to its await: the OPEN check throws the circuit-open
\* error, or operation() is invoked and the call suspends.
Execute(c) ==
    /\ calls[c] = "idle"
    /\ \/ /\ breaker.state = "OPEN"
          /\ last' = Event("reject", breaker)
          /\ UNCHANGED <<calls, admitted, streak>>
       \/ /\ breaker.state # "OPEN"
          /\ calls' = [calls EXCEPT ![c] = "running"]
          /\ admitted' = [admitted EXCEPT ![c] = breaker.state]
          /\ last' = Event("invoke", breaker)
          /\ streak' = IF InFlight = {} /\ streak # NoStreak
                       THEN [streak EXCEPT !.ops = @ + 1]
                       ELSE NoStreak
    /\ UNCHANGED <<breaker, now, timerDue, circuitEvents, execVars,
                   metricsVars, concVars, fnVars>>

\* the operation's promise resolves: onSuccess(), return result
OperationSucceeds(c) ==
    /\ calls[c] = "running"
    /\ breaker' = onSuccess(breaker)
    /\ calls' = [calls EXCEPT ![c] = "idle"]
    /\ admitted' = [admitted EXCEPT ![c] = "none"]
    /\ last' = Event("success", breaker)
    /\ streak' = IF InFlight = {c} /\ Pristine(breaker')
                 THEN NewStreak(streak.fails)
                 ELSE NoStreak
    /\ UNCHANGED <<now, timerDue, circuitEvents, execVars, metricsVars, concVars, fnVars>>

\* the operation's promise rejects: onFailure(), rethrow
OperationFails(c) ==
    /\ calls[c] = "running"
    /\ breaker' = onFailure(breaker, now)
    /\ calls' = [calls EXCEPT ![c] = "idle"]
    /\ admitted' = [admitted EXCEPT ![c] = "none"]
    /\ last' = Event("failure", breaker)
    /\ streak' = IF streak # NoStreak
                 THEN [streak EXCEPT !.fails = @ + 1]
                 ELSE NoStreak
    /\ UNCHANGED <<now, timerDue, circuitEvents, execVars, metricsVars, concVars, fnVars>>

\* the monitoring interval fires
MonitorTick ==
    /\ now >= timerDue
    /\ breaker' = startMonitoring(breaker, now)
    /\ timerDue' = now + breaker.monitoringPeriod
    /\ last' = Event("tick", breaker)
    /\ streak' = IF breaker'.state = breaker.state THEN streak ELSE NoStreak
    /\ UNCHANGED <<now, calls, admitted, circuitEvents, execVars, metricsVars, concVars,
                   fnVars>>

\* time passes
Advance ==
    /\ now < MaxTime
    /\ now' = now + 1
    /\ UNCHANGED <<breaker, callerVars, execVars, metricsVars, concVars, fnVars>>

Next ==
    \/ \E c \in Callers : Execute(c)
    \/ \E c \in Callers : OperationSucceeds(c)
    \/ \E c \in Callers : OperationFails(c)
    \/ MonitorTick
    \/ Advance

Spec == Init /\ [][Next]_vars

\* -------------------------------------------------------------- SpecExec

\* the state one logical request reads and writes
World ==
    [pc |-> pc, depth |-> depth, cfg |-> cfg, attempt |-> attempt,
     pending |-> pending, sleepDelay |-> sleepDelay, metrics |-> metrics,
     storage |-> storage, authEvents |-> authEvents, location |-> location,
     fetches |-> fetches, sleeps |-> sleeps, refreshes |-> refreshes,
     circuitBreakers |-> circuitBreakers, outcome |-> outcome,
     reissues |-> reissues, telemetry |-> telemetry, traces |-> traces,
     issued |-> issued]

Install(w) ==
    /\ pc' = w.pc
    /\ depth' = w.depth
    /\ cfg' = w.cfg
    /\ attempt' = w.attempt
    /\ pending' = w.pending
    /\ sleepDelay' = w.sleepDelay
    /\ metrics' = w.metrics
    /\ storage' = w.storage
    /\ authEvents' = w.authEvents
    /\ location' = w.location
    /\ fetches' = w.fetches
    /\ sleeps' = w.sleeps
    /\ refreshes' = w.refreshes
    /\ circuitBreakers' = w.circuitBreakers
    /\ outcome' = w.outcome
    /\ reissues' = w.reissues
    /\ telemetry' = w.telemetry
    /\ traces' = w.traces
    /\ issued' = w.issued

\* the server's answer to a fetch call: a response with a status, or the
\* AbortError of the attempt's timeout
Response(status) == [kind |-> "response", status |-> status, name |-> "Response"]

Thrown(name) == [kind |-> "throw", status |-> 0, name |-> name]

Statuses == {200, 401, 403, 404, 500, 503}

Answers == {Response(st) : st \in Statuses} \cup {Thrown("AbortError")}

\* the jitter values a backoff sleep of a request draws from
SleepJitters == {0, JitterRange - 1}

\* response.ok
Ok(status) == status >= 200 /\ status <= 299

\* executeRequest: the head of the loop body up to `await fetch(...)`
beginAttempt(w, n) ==
    [w EXCEPT !.attempt = n,
              !.metrics.totalRequests = @ + 1,
              !.fetches = @ + 1,
              !.pc = "fetch"]

afterOperation_SparesClientErrors(cb, ok, error, t) ==
    IF ok THEN onSuccess(cb)
    ELSE IF error.hasStatus /\ error.status >= 400 /\ error.status < 500 THEN cb
    ELSE onFailure(cb, t)

\* CircuitBreaker.execute once the operation has settled: with its result, or
\* with the error it threw, whatever that is
afterOperation(cb, ok, error, t) == IF ok THEN onSuccess(cb) ELSE onFailure(cb, t)

ServiceOf_Default(w) ==
    IF getServiceFromUrl(w.cfg.url) \in Services
    THEN getServiceFromUrl(w.cfg.url)
    ELSE "products"

\* the service of the request's url, and whether request() finds a breaker
\* for it
ServiceOf(w) == getServiceFromUrl(w.cfg.url)

Guarded(w) == ServiceOf(w) \in Services

\* logRequest: sendTrace is async and its result is not awaited, so nothing
\* of it comes back into the request
logRequest_TraceIsAnAttempt(w) ==
    IF w.telemetry
    THEN [w EXCEPT !.traces = @ + 1, !.metrics.totalRequests = @ + 1]
    ELSE w

logRequest(w) == IF w.telemetry THEN [w EXCEPT !.traces = @ + 1] ELSE w

\* logError: as logRequest
logError(w) == IF w.telemetry THEN [w EXCEPT !.traces = @ + 1] ELSE w

RECURSIVE settle(_, _, _, _, _, _)

\* executeRequest, the end of the catch block: sleep and go round the loop
\* again, or leave the loop and throw lastError
retryOrThrow_OneFewer(w, error, lastError, t, jitter) ==
    IF w.attempt < w.cfg.retries - 1 /\ shouldRetry(error)
    THEN [w EXCEPT !.pc = "sleep",
                   !.sleeps = @ + 1,
                   !.sleepDelay =
                       calculateRetryDelay(w.attempt, w.cfg.retryDelay, jitter)]
    ELSE settle(w, FALSE, lastError, t, TRUE, jitter)

retryOrThrow_OneMore(w, error, lastError, t, jitter) ==
    IF w.attempt <= w.cfg.retries /\ shouldRetry(error)
    THEN [w EXCEPT !.pc = "sleep",
                   !.sleeps = @ + 1,
                   !.sleepDelay =
                       calculateRetryDelay(w.attempt, w.cfg.retryDelay, jitter)]
    ELSE settle(w, FALSE, lastError, t, TRUE, jitter)

retryOrThrow_RecordsEachAttempt(w, error, lastError, t, jitter) ==
    IF w.attempt < w.cfg.retries /\ shouldRetry(error)
    THEN [w EXCEPT !.pc = "sleep",
                   !.sleeps = @ + 1,
                   !.sleepDelay =
                       calculateRetryDelay(w.attempt, w.cfg.retryDelay, jitter),
                   !.circuitBreakers =
                       IF Guarded(w)
                       THEN [@ EXCEPT ![ServiceOf(w)] = onFailure(@, t)]
                       ELSE @]
    ELSE settle(w, FALSE, lastError, t, TRUE, jitter)

retryOrThrow(w, error, lastError, t, jitter) ==
    IF w.attempt < w.cfg.retries /\ shouldRetry(error)
    THEN [w EXCEPT !.pc = "sleep",
                   !.sleeps = @ + 1,
                   !.sleepDelay =
                       calculateRetryDelay(w.attempt, w.cfg.retryDelay, jitter)]
    ELSE settle(w, FALSE, lastError, t, TRUE, jitter)

\* the request of depth w.depth settles: `entered` tells whether its
\* breaker.execute got past the OPEN check, so that onSuccess/onFailure runs
\* on the breaker of the url's service. A re-issued request (depth 2) settles
\* into the token-refresh interceptor of the outer executeRequest, which
\* returns its result or goes on with lastError set to its error.
settle(w, ok, error, t, entered, jitter) ==
    LET cbs == IF Guarded(w) /\ entered
               THEN [w.circuitBreakers EXCEPT
                        ![ServiceOf(w)] = afterOperation(@, ok, error, t)]
               ELSE w.circuitBreakers
    IN  IF w.depth = 1
        THEN [w EXCEPT !.circuitBreakers = cbs,
                       !.pc = "done",
                       !.outcome = [kind |-> IF ok THEN "resolved" ELSE "rejected",
                                    error |-> IF ok THEN NoError ELSE error]]
        ELSE LET outer == [w EXCEPT !.circuitBreakers = cbs,
                                    !.depth = 1,
                                    !.cfg = w.pending.cfg,
                                    !.attempt = w.pending.attempt,
                                    !.pending = NoPending]
             IN  IF ok
                 THEN settle(outer, TRUE, NoError, t, TRUE, jitter)
                 ELSE retryOrThrow(outer, w.pending.error, error, t, jitter)

request_KeepsHeader(w, config, t, jitter) ==
    LET user == w.storage.user
        processed == [config EXCEPT
                        !.authorization = IF @ = 0 /\ user.present
                                          THEN user.token
                                          ELSE @,
                        !.startTime = t]
        w1 == [w EXCEPT !.cfg = processed]
    IN  IF Guarded(w1) /\ w1.circuitBreakers[ServiceOf(w1)].state = "OPEN"
        THEN settle(w1, FALSE, CircuitOpenError, t, FALSE, jitter)
        ELSE beginAttempt(w1, 0)

request_SkipsBreaker(w, config, t, jitter) ==
    LET user == w.storage.user
        processed == [config EXCEPT
                        !.authorization = IF user.present /\ user.token # 0
                                          THEN user.token
                                          ELSE @,
                        !.startTime = t]
    IN  beginAttempt([w EXCEPT !.cfg = processed], 0)

\* request(config): the request interceptor (Authorization header of the
\* stored user, _startTime), the breaker of the url's service, and the
\* first attempt of executeRequest
request(w, config, t, jitter) ==
    LET user == w.storage.user
        processed == [config EXCEPT
                        !.authorization = IF user.present /\ user.token # 0
                                          THEN user.token
                                          ELSE @,
                        !.startTime = t]
        w1 == [w EXCEPT !.cfg = processed]
    IN  IF Guarded(w1) /\ w1.circuitBreakers[ServiceOf(w1)].state = "OPEN"
        THEN settle(w1, FALSE, CircuitOpenError, t, FALSE, jitter)
        ELSE beginAttempt(w1, 0)

\* the catch block's handleAuthenticationFailure path: the refresh threw
authenticationFailed(w, error, refreshError, t, jitter) ==
    LET w1 == [w EXCEPT !.storage = handleAuthenticationFailure(@),
                        !.authEvents = @ + 1,
                        !.location = "/login"]
    IN  retryOrThrow(w1, error, refreshError, t, jitter)

failAttempt_IgnoresRetryFlag(w, error, t, jitter) ==
    LET started == IF w.cfg.startTime = 0 THEN t ELSE w.cfg.startTime
        w1 == logError([w EXCEPT !.metrics = updateMetrics(@, FALSE, t - started)])
        user == w1.storage.user
    IN  IF error.hasStatus /\ error.status = 401
        THEN IF ~user.present \/ ~user.refreshToken
             THEN authenticationFailed(w1, error, RefreshError("NoRefreshToken"),
                                       t, jitter)
             ELSE [w1 EXCEPT !.pc = "refresh",
                             !.refreshes = @ + 1,
                             !.pending = [error |-> error,
                                          attempt |-> w1.attempt,
                                          cfg |-> w1.cfg]]
        ELSE retryOrThrow(w1, error, error, t, jitter)

\* executeRequest's catch block: the metrics interceptor, the token-refresh
\* interceptor (up to refreshToken's fetch), the retry decision
failAttempt(w, error, t, jitter) ==
    LET started == IF w.cfg.startTime = 0 THEN t ELSE w.cfg.startTime
        w1 == logError([w EXCEPT !.metrics = updateMetrics(@, FALSE, t - started)])
        user == w1.storage.user
    IN  IF error.hasStatus /\ error.status = 401 /\ ~w1.cfg.retry
        THEN IF ~user.present \/ ~user.refreshToken
             THEN authenticationFailed(w1, error, RefreshError("NoRefreshToken"),
                                       t, jitter)
             ELSE [w1 EXCEPT !.pc = "refresh",
                             !.refreshes = @ + 1,
                             !.pending = [error |-> error,
                                          attempt |-> w1.attempt,
                                          cfg |-> w1.cfg]]
        ELSE retryOrThrow(w1, error, error, t, jitter)

\* executeRequest's success path: the metrics interceptor, return
succeedAttempt(w, t, jitter) ==
    LET w1 == logRequest([w EXCEPT !.metrics =
                              updateMetrics(@, TRUE, t - w.cfg.startTime)])
    IN  settle(w1, TRUE, NoError, t, TRUE, jitter)

\* executeRequest after `await fetch(...)`: the fetch of attempt w.fetches
\* has settled with `answer`
fetchReturns(w, answer, t, jitter) ==
    IF answer.kind = "response" /\ Ok(answer.status)
    THEN succeedAttempt(w, t, jitter)
    ELSE IF answer.kind = "response"
    THEN failAttempt(w, APIError(answer.status, w.fetches), t, jitter)
    ELSE failAttempt(w, NativeError(answer.name, w.fetches), t, jitter)

refreshReturns_KeepsSession(w, result, t, jitter) ==
    IF result = "ok"
    THEN LET marked == [w.cfg EXCEPT !.retry = TRUE]
             w1 == [w EXCEPT !.storage.user = [present |-> TRUE,
                                               token |-> w.issued + 1,
                                               refreshToken |-> TRUE],
                             !.issued = @ + 1,
                             !.cfg = marked,
                             !.pending.cfg = marked,
                             !.reissues = @ + 1,
                             !.depth = 2]
         IN  request(w1, marked, t, jitter)
    ELSE [w EXCEPT !.pc = "done",
                   !.outcome = [kind |-> "rejected", error |-> w.pending.error]]

\* refreshToken after its fetch, and the rest of the token-refresh
\* interceptor: store the new token, set _retry, re-issue the request; or
\* handleAuthenticationFailure
refreshReturns(w, result, t, jitter) ==
    IF result = "ok"
    THEN LET marked == [w.cfg EXCEPT !.retry = TRUE]
             w1 == [w EXCEPT !.storage.user = [present |-> TRUE,
                                               token |-> w.issued + 1,
                                               refreshToken |-> TRUE],
                             !.issued = @ + 1,
                             !.cfg = marked,
                             !.pending.cfg = marked,
                             !.reissues = @ + 1,
                             !.depth = 2]
         IN  request(w1, marked, t, jitter)
    ELSE authenticationFailed(w, w.pending.error, RefreshError(result), t, jitter)

\* the caller's next call of request(config), once the one before has settled
again(w, config) ==
    [w EXCEPT !.pc = "request", !.depth = 1, !.cfg = config, !.attempt = 0,
              !.pending = NoPending, !.sleepDelay = 0, !.fetches = 0,
              !.sleeps = 0, !.refreshes = 0, !.reissues = 0,
              !.outcome = Unsettled]

RECURSIVE Failures(_, _, _)
\* n failed operations in a row at time t
Failures(cb, n, t) == IF n = 0 THEN cb ELSE Failures(onFailure(cb, t), n - 1, t)

StartTime == 2 * BreakerTimeout

\* states of a service's breaker when a request is made: fresh, one failure
\* short of opening, just opened, and HALF_OPEN after the cooldown
BreakerStates ==
    {ClientBreaker,
     Failures(ClientBreaker, BreakerThreshold - 1, 1),
     Failures(ClientBreaker, BreakerThreshold, StartTime),
     startMonitoring(Failures(ClientBreaker, BreakerThreshold, 1), StartTime)}

Urls == {<<"api", "products">>, <<"health">>}

StoredUsers ==
    {NoUser,
     [present |-> TRUE, token |-> 1, refreshToken |-> FALSE],
     [present |-> TRUE, token |-> 1, refreshToken |-> TRUE]}

\* the config a caller gives to request()
NewConfig(url, retries) ==
    [url |-> url, retries |-> retries, retryDelay |-> DefaultRetryDelay,
     timeout |-> DefaultTimeout, retry |-> FALSE, startTime |-> 0,
     authorization |-> 0]

\* a client whose first request is about to be made; window.telemetryClient
\* is installed by telemetry-client.js
FirstRequest ==
    /\ now = StartTime
    /\ pc = "request"
    /\ depth = 1
    /\ attempt = 0
    /\ pending = NoPending
    /\ sleepDelay = 0
    /\ metrics = NewMetrics
    /\ authEvents = 0
    /\ location = "/"
    /\ fetches = 0
    /\ sleeps = 0
    /\ refreshes = 0
    /\ answers = <<>>
    /\ outcome = Unsettled
    /\ reissues = 0
    /\ telemetry = TRUE
    /\ traces = 0
    /\ served = 0
    /\ refreshResult = "none"
    /\ tally = [s \in Services |-> NoTally]
    /\ breaker = ClientBreaker
    /\ CallersIdle
    /\ MetricsIdle
    /\ ConcIdle
    /\ FnIdle

\* a client, its storage and the config of its first request
RequestMade ==
    /\ \E u \in Urls, r \in 0..MaxRetries :
          /\ cfg = NewConfig(u, r)
          /\ \E b \in IF getServiceFromUrl(u) \in Services
                      THEN BreakerStates
                      ELSE {ClientBreaker} :
                circuitBreakers =
                    [s \in Services |-> IF s = getServiceFromUrl(u)
                                        THEN b
                                        ELSE ClientBreaker]
    /\ \E u \in StoredUsers : storage = [user |-> u, cart |-> TRUE]
    /\ issued = storage.user.token
    /\ FirstRequest
    /\ before = circuitBreakers
    /\ twin = [World EXCEPT !.telemetry = FALSE]

ExecInit ==
    /\ RequestMade
    /\ server = Answers

\* the tally once this step is taken: a request that settles with the error
\* of a fetch adds to its service's run of that error or starts a new run; one
\* that settles otherwise, but for a rejection by the breaker, ends the run
NextTally ==
    IF pc' = "done" /\ Guarded(World) /\ outcome'.error # CircuitOpenError
    THEN LET e == outcome'.error
             old == tally[ServiceOf(World)]
             fromFetch == outcome'.kind = "rejected" /\ e.id > 0
         IN  [tally EXCEPT ![ServiceOf(World)] =
                 IF ~fromFetch THEN NoTally
                 ELSE IF old.name = e.name /\ old.status = e.status
                 THEN [old EXCEPT !.n = @ + 1]
                 ELSE [name |-> e.name, status |-> e.status, n |-> 1]]
    ELSE tally

\* the caller calls request(config)
Request ==
    /\ pc = "request"
    /\ \E ww \in {<<request(World, cfg, now, jitter),
                      request(twin, twin.cfg, now, jitter)>> :
                        jitter \in SleepJitters} :
          /\ Install(ww[1])
          /\ twin' = ww[2]
    /\ tally' = NextTally
    /\ UNCHANGED <<breaker, now, answers, before, served, server, refreshResult,
                   callerVars, metricsVars, concVars, fnVars>>

\* the fetch of the running attempt settles
FetchReturns ==
    /\ pc = "fetch"
    /\ \E answer \in server :
          LET t == now + (IF answer = Thrown("AbortError")
                          THEN cfg.timeout
                          ELSE FetchLatency)
          IN  /\ now' = t
              /\ answers' = Append(answers, answer)
              /\ \E ww \in {<<fetchReturns(World, answer, t, jitter),
                               fetchReturns(twin, answer, t, jitter)>> :
                                 jitter \in SleepJitters} :
                    /\ Install(ww[1])
                    /\ twin' = ww[2]
    /\ tally' = NextTally
    /\ UNCHANGED <<breaker, before, served, server, refreshResult, callerVars,
                   metricsVars, concVars, fnVars>>

SleepEnds_StampsEachAttempt ==
    /\ pc = "sleep"
    /\ now' = now + sleepDelay
    /\ \E w \in {beginAttempt(World, attempt + 1)},
          tw \in {beginAttempt(twin, twin.attempt + 1)} :
             /\ Install([w EXCEPT !.cfg.startTime = now + sleepDelay])
             /\ twin' = [tw EXCEPT !.cfg.startTime = now + sleepDelay]
    /\ UNCHANGED <<tally, breaker, answers, before, served, server, refreshResult,
                   callerVars, metricsVars, concVars, fnVars>>

\* the backoff sleep ends: the next attempt
SleepEnds ==
    /\ pc = "sleep"
    /\ now' = now + sleepDelay
    /\ \E w \in {beginAttempt(World, attempt + 1)},
          tw \in {beginAttempt(twin, twin.attempt + 1)} :
             /\ Install(w)
             /\ twin' = tw
    /\ UNCHANGED <<tally, breaker, answers, before, served, server, refreshResult,
                   callerVars, metricsVars, concVars, fnVars>>

\* the fetch of the refresh endpoint settles: ok, not ok, or thrown
RefreshReturns ==
    /\ pc = "refresh"
    /\ \E result \in {"ok", "RefreshFailed", "TypeError"} :
          /\ now' = now + FetchLatency
          /\ refreshResult' = result
          /\ \E ww \in {<<refreshReturns(World, result, now + FetchLatency, jitter),
                           refreshReturns(twin, result, now + FetchLatency, jitter)>> :
                             jitter \in SleepJitters} :
                /\ Install(ww[1])
                /\ twin' = ww[2]
    /\ tally' = NextTally
    /\ UNCHANGED <<breaker, answers, before, served, server, callerVars,
                   metricsVars, concVars, fnVars>>

ExecNext ==
    \/ Request
    \/ FetchReturns
    \/ SleepEnds
    \/ RefreshReturns

SpecExec == ExecInit /\ [][ExecNext]_vars

\* one answer of each kind the client tells apart: success, 401, a
\* retryable status, a status that is not retried, the timeout's abort
LiveAnswers ==
    {Response(200), Response(401), Response(503), Response(404),
     Thrown("AbortError")}

ExecLiveInit ==
    /\ RequestMade
    /\ server = LiveAnswers

\* SpecExec where every fetch returns or is aborted by its timeout and every
\* timer fires
SpecExecLive ==
    /\ ExecLiveInit
    /\ [][ExecNext]_vars
    /\ WF_vars(ExecNext)

\* ----------------------------------------------------------- SpecSession

\* urls of every service, of none, and one that names two services
SessionUrls ==
    {<<"api", "products">>, <<"api", "auth", "profile">>, <<"api", "orders">>,
     <<"api", "orders", "products">>, <<"health">>}

\* a session: what the backend answers during it, and the retries the caller
\* asks for. A backend that answers every call alike is one of an outage
\* (every call times out or fails) or of a caller asking for what is not there.
SessionPlans ==
    {[server |-> {Response(404)}, retries |-> 1],
     [server |-> {Response(500)}, retries |-> 0],
     [server |-> {Thrown("AbortError")}, retries |-> 0],
     [server |-> {Response(200), Response(503)}, retries |-> 1],
     [server |-> {Response(200), Response(401)}, retries |-> 1]}

\* how many requests of a session are followed
RequestBudget ==
    IF Cardinality(server) = 1 THEN MaxRequests ELSE MaxMixedRequests

SessionInit ==
    /\ \E u \in SessionUrls, plan \in SessionPlans :
          /\ cfg = NewConfig(u, plan.retries)
          /\ server = plan.server
    /\ circuitBreakers = FreshBreakers
    /\ storage = [user |-> [present |-> TRUE, token |-> 1, refreshToken |-> TRUE],
                  cart |-> TRUE]
    /\ issued = 1
    /\ FirstRequest
    /\ before = circuitBreakers
    /\ twin = [World EXCEPT !.telemetry = FALSE]

\* the request has settled and the caller makes the next one
Again ==
    /\ pc = "done"
    /\ served + 1 < RequestBudget
    /\ \E u \in SessionUrls :
          /\ Install(again(World, NewConfig(u, cfg.retries)))
          /\ twin' = again(twin, NewConfig(u, cfg.retries))
    /\ answers' = <<>>
    /\ before' = circuitBreakers
    /\ served' = served + 1
    /\ refreshResult' = "none"
    /\ UNCHANGED <<tally, breaker, now, server, callerVars, metricsVars, concVars, fnVars>>

SessionNext ==
    \/ Request
    \/ FetchReturns
    \/ SleepEnds
    \/ RefreshReturns
    \/ Again

SpecSession == SessionInit /\ [][SessionNext]_vars

\* ----------------------------------------------------------- SpecMetrics

\* the numbers of attempts made before the first step: none, and enough to
\* fill the window of requestTimes or nearly so
WindowFills == {0, MetricsWindow - 2, MetricsWindow}

\* the durations an attempt is measured to have taken
Durations == {FetchLatency, DefaultTimeout}

\* n attempts made one after another, all successful, the i-th taking i ms
AfterAttempts(n) ==
    [totalRequests |-> n, successfulRequests |-> n, failedRequests |-> 0,
     requestTimes |-> [i \in 1..n |-> i]]

MetricsInit ==
    /\ \E n \in WindowFills :
          /\ metrics = AfterAttempts(n)
          /\ durations = [i \in 1..n |-> i]
    /\ inflight = 0
    /\ resets = 0
    /\ breaker = ClientBreaker
    /\ now = 0
    /\ CallersIdle
    /\ RequestIdle
    /\ FnIdle
    /\ ConcIdle

\* executeRequest: an attempt of some request counts itself and awaits its
\* fetch
AttemptBegins ==
    /\ inflight < MaxInflight
    /\ \E n \in WindowFills :
          /\ n <= metrics.totalRequests
          /\ metrics.totalRequests < n + MaxUpdates
    /\ metrics' = [metrics EXCEPT !.totalRequests = @ + 1]
    /\ inflight' = inflight + 1
    /\ UNCHANGED <<durations, resets, coreVars, callerVars, requestVars, fnVars, concVars>>

\* the metrics interceptor of an attempt whose fetch has settled
AttemptSettles ==
    /\ inflight > 0
    /\ \E success \in BOOLEAN, duration \in Durations :
          /\ metrics' = updateMetrics(metrics, success, duration)
          /\ durations' = Append(durations, duration)
    /\ inflight' = inflight - 1
    /\ UNCHANGED <<resets, coreVars, callerVars, requestVars, fnVars, concVars>>

\* resetMetrics()
ResetMetrics ==
    /\ resets < MaxResets
    /\ metrics' = NewMetrics
    /\ durations' = <<>>
    /\ resets' = resets + 1
    /\ UNCHANGED <<inflight, coreVars, callerVars, requestVars, fnVars, concVars>>

MetricsNext ==
    \/ AttemptBegins
    \/ AttemptSettles
    \/ ResetMetrics

SpecMetrics == MetricsInit /\ [][MetricsNext]_vars

\* ------------------------------------------------------- SpecShouldRetry

ErrorNames == {"AbortError", "TypeError", "APIError", "SyntaxError", "Error"}

ErrorStatuses == {0, 200, 302, 400, 401, 403, 404, 408, 428, 429, 430, 499,
                  500, 502, 503, 599, 600, 700}

\* the errors shouldRetry is given: any name, with or without a status
Errors ==
    {NativeError(n, 0) : n \in ErrorNames}
        \cup {[APIError(st, 0) EXCEPT !.name = n] :
                n \in ErrorNames, st \in ErrorStatuses}

ShouldRetryInit ==
    /\ arg \in Errors
    /\ res = [done |-> FALSE, value |-> FALSE]
    /\ breaker = CircuitBreaker(BreakerThreshold, BreakerTimeout,
                                BreakerMonitoringPeriod, 0)
    /\ now = 0
    /\ CallersIdle
    /\ ExecIdle
    /\ MetricsIdle
    /\ ConcIdle

ApplyShouldRetry ==
    /\ ~res.done
    /\ res' = [done |-> TRUE, value |-> shouldRetry(arg)]
    /\ UNCHANGED <<arg, coreVars, callerVars, execVars, metricsVars, concVars>>

ShouldRetryNext == ApplyShouldRetry

SpecShouldRetry == ShouldRetryInit /\ [][ShouldRetryNext]_vars

\* -------------------------------------------------------- SpecRetryDelay

BaseDelays == {0, 1, 100, 500, DefaultRetryDelay, 2 * DefaultRetryDelay,
               MaxRetryDelay - JitterRange, MaxRetryDelay, 2 * MaxRetryDelay}

RetryDelayInit ==
    /\ \E n \in 0..MaxAttempt, b \in BaseDelays :
          arg = [attempt |-> n, baseDelay |-> b]
    /\ res = [done |-> FALSE, value |-> 0]
    /\ breaker = CircuitBreaker(BreakerThreshold, BreakerTimeout,
                                BreakerMonitoringPeriod, 0)
    /\ now = 0
    /\ CallersIdle
    /\ ExecIdle
    /\ MetricsIdle
    /\ ConcIdle

ApplyCalculateRetryDelay ==
    /\ ~res.done
    /\ \E jitter \in Jitters :
          res' = [done |-> TRUE,
                  value |-> calculateRetryDelay(arg.attempt, arg.baseDelay, jitter)]
    /\ UNCHANGED <<arg, coreVars, callerVars, execVars, metricsVars, concVars>>

RetryDelayNext == ApplyCalculateRetryDelay

SpecRetryDelay == RetryDelayInit /\ [][RetryDelayNext]_vars

\* -------------------------------------------------------- SpecConcurrent
\* Several logical requests made through one client and in flight at the
\* same time.  A request runs from one await to the next without
\* interruption (one event loop); the awaits are the fetch of an attempt, the
\* backoff sleep and the fetch of the refresh endpoint.

\* the client as the request of caller c sees it
WorldOf(c) ==
    [pc |-> requests[c].pc, depth |-> requests[c].depth,
     cfg |-> requests[c].cfg, attempt |-> requests[c].attempt,
     pending |-> requests[c].pending, sleepDelay |-> requests[c].sleepDelay,
     metrics |-> metrics, storage |-> storage, authEvents |-> authEvents,
     location |-> location, fetches |-> requests[c].fetches,
     sleeps |-> requests[c].sleeps, refreshes |-> requests[c].refreshes,
     circuitBreakers |-> circuitBreakers, outcome |-> requests[c].outcome,
     reissues |-> requests[c].reissues, telemetry |-> telemetry,
     traces |-> traces, issued |-> issued]

\* the request's locals in w, suspended (or settled) since time t
LocalsOf(w, t) ==
    [pc |-> w.pc, depth |-> w.depth, cfg |-> w.cfg, attempt |-> w.attempt,
     pending |-> w.pending, sleepDelay |-> w.sleepDelay,
     fetches |-> w.fetches, sleeps |-> w.sleeps, refreshes |-> w.refreshes,
     reissues |-> w.reissues, outcome |-> w.outcome, since |-> t]

Max(a, b) == IF a >= b THEN a ELSE b

Suspended == {c \in Callers : requests[c].pc \in {"fetch", "sleep", "refresh"}}

\* the request of caller c runs at time t up to its next await and leaves
\* the client as in w
Runs(c, w, t) ==
    /\ requests' = [requests EXCEPT ![c] = LocalsOf(w, t)]
    /\ now' = t
    /\ metrics' = w.metrics
    /\ storage' = w.storage
    /\ authEvents' = w.authEvents
    /\ location' = w.location
    /\ circuitBreakers' = w.circuitBreakers
    /\ telemetry' = w.telemetry
    /\ traces' = w.traces
    /\ issued' = w.issued
    /\ session' = IF w.issued # issued
                  THEN [by |-> c, inflight |-> Suspended]
                  ELSE IF w.authEvents # authEvents THEN NoSession
                  ELSE session
    /\ UNCHANGED <<pc, depth, cfg, attempt, pending, sleepDelay, fetches,
                   sleeps, refreshes, answers, outcome, reissues, before,
                   served, server, refreshResult, tally, twin, breaker,
                   callerVars, metricsVars, fnVars>>

\* the requests are made for the same url, with 0 or 1 retries
ConcUrl == <<"api", "products">>

ConcRetries == {0, 1}

ConcAnswers == {Response(200), Response(401), Response(503)}

ConcInit ==
    /\ now = StartTime
    /\ \E r \in ConcRetries :
          requests = [c \in Callers |->
                         [NoRequest EXCEPT !.pc = "request",
                                           !.depth = 1,
                                           !.cfg = NewConfig(ConcUrl, r)]]
    /\ \E b \in {ClientBreaker, Failures(ClientBreaker, BreakerThreshold - 1, 1)} :
          circuitBreakers = [s \in Services |-> b]
    /\ storage = [user |-> [present |-> TRUE, token |-> 1, refreshToken |-> TRUE],
                  cart |-> TRUE]
    /\ issued = 1
    /\ session = NoSession
    /\ server = ConcAnswers
    /\ metrics = NewMetrics
    /\ authEvents = 0
    /\ location = "/"
    /\ telemetry = TRUE
    /\ traces = 0
    /\ pc = "off"
    /\ depth = 0
    /\ cfg = NoConfig
    /\ attempt = 0
    /\ pending = NoPending
    /\ sleepDelay = 0
    /\ fetches = 0
    /\ sleeps = 0
    /\ refreshes = 0
    /\ answers = <<>>
    /\ outcome = Unsettled
    /\ reissues = 0
    /\ before = FreshBreakers
    /\ served = 0
    /\ refreshResult = "none"
    /\ tally = [s \in Services |-> NoTally]
    /\ twin = IdleWorld
    /\ breaker = ClientBreaker
    /\ CallersIdle
    /\ MetricsIdle
    /\ FnIdle

\* caller c calls request(config); the callers, whose requests are alike,
\* call in the order of their numbers
Calls(c) ==
    /\ requests[c].pc = "request"
    /\ \A d \in Callers : d < c => requests[d].pc # "request"
    /\ \E w \in {request(WorldOf(c), requests[c].cfg, now, 0)} :
          Runs(c, w, now)

\* the fetch of the attempt of c's request settles, however long it took
FetchOf(c) ==
    /\ requests[c].pc = "fetch"
    /\ \E answer \in server :
          \E w \in {fetchReturns(WorldOf(c), answer, now, 0)} :
             Runs(c, w, now)

\* the backoff sleep of c's request ends, no earlier than its delay
SleepOf(c) ==
    /\ requests[c].pc = "sleep"
    /\ LET t == Max(now, requests[c].since + requests[c].sleepDelay)
       IN  \E w \in {beginAttempt(WorldOf(c), requests[c].attempt + 1)} :
              Runs(c, w, t)

\* the fetch of the refresh endpoint made for c's request settles
RefreshOf(c) ==
    /\ requests[c].pc = "refresh"
    /\ \E result \in {"ok", "RefreshFailed"} :
          \E w \in {refreshReturns(WorldOf(c), result, now, 0)} :
             Runs(c, w, now)

ConcNext ==
    \/ \E c \in Callers : Calls(c)
    \/ \E c \in Callers : FetchOf(c)
    \/ \E c \in Callers : SleepOf(c)
    \/ \E c \in Callers : RefreshOf(c)

SpecConcurrent == ConcInit /\ [][ConcNext]_vars

\* ------------------------------------------------------------- SpecProbe
\* The breaker of Spec with a clock that keeps running and a timer that keeps
\* firing.  Callers make their calls before MaxTime; calls in flight may
\* complete at any later time.

\* a caller calls execute(operation)
CallerCalls(c) ==
    /\ now < MaxTime
    /\ Execute(c)

\* time passes: up to MaxTime, and for as long as an OPEN breaker waits for
\* nextAttempt or for the interval callback that follows it
ClockRuns ==
    /\ \/ now < MaxTime
       \/ /\ breaker.state = "OPEN"
          /\ now < breaker.nextAttempt \/ now < timerDue
    /\ now' = now + 1
    /\ UNCHANGED <<breaker, callerVars, execVars, metricsVars, concVars, fnVars>>

ProbeNext ==
    \/ \E c \in Callers : CallerCalls(c)
    \/ \E c \in Callers : OperationSucceeds(c)
    \/ \E c \in Callers : OperationFails(c)
    \/ MonitorTick
    \/ ClockRuns

\* setInterval keeps calling the callback; Date.now() keeps growing
SpecProbe ==
    /\ Init
    /\ [][ProbeNext]_vars
    /\ WF_vars(MonitorTick)
    /\ WF_vars(ClockRuns)

\* ---------------------------------------------------------------- claims

Probes == {c \in InFlight : admitted[c] = "HALF_OPEN"}

\* C1: from a CLOSED breaker with failureCount 0, exactly `threshold` failing
\* execute() calls run one after another leave the breaker OPEN with the
\* operation invoked `threshold` times, and an execute() call made next (the
\* monitoring timer not having moved the breaker on) is rejected with the
\* circuit-open error without invoking the operation: the number of
\* invocations stays at `threshold`.
C1_OpensAfterThresholdFailures ==
    /\ [](streak.fails = breaker.threshold
            => /\ breaker.state = "OPEN"
               /\ streak.ops = breaker.threshold
               /\ InFlight = {})
    /\ [][\A c \in Callers :
            (streak.fails = breaker.threshold /\ Execute(c))
                => /\ last'.kind = "reject"
                   /\ calls' = calls
                   /\ streak'.ops = breaker.threshold]_vars

C1_Witness ==
    /\ last.kind = "reject"
    /\ last.run = breaker.threshold
    /\ breaker.threshold = MaxThreshold
    /\ streak.ops = breaker.threshold

\* C2 (as claimed): a failure of an operation that completes while the
\* breaker is HALF_OPEN leaves the breaker OPEN with nextAttempt = now + timeout.
C2_HalfOpenFailureReopens ==
    [][\A c \in Callers :
         (breaker.state = "HALF_OPEN" /\ OperationFails(c))
             => /\ breaker'.state = "OPEN"
                /\ breaker'.nextAttempt = now + breaker.timeout]_vars

\* C3: a success of an operation that completes while the breaker is
\* HALF_OPEN leaves the breaker CLOSED with failureCount 0.
C3_HalfOpenSuccessCloses ==
    [][\A c \in Callers :
         (breaker.state = "HALF_OPEN" /\ OperationSucceeds(c))
             => /\ breaker'.state = "CLOSED"
                /\ breaker'.failureCount = 0]_vars

C3_Witness ==
    /\ last.kind = "success"
    /\ last.pre = "HALF_OPEN"
    /\ breaker.state = "CLOSED"

\* C4 (as claimed): while the breaker is HALF_OPEN at most one operation let
\* through as a probe is in flight.
C4_SingleProbe ==
    breaker.state = "HALF_OPEN" => Cardinality(Probes) <= 1

\* C14 (as claimed): a step that changes the breaker's state to OPEN emits a
\* circuit:open event on the EventBus, and a step that changes it to CLOSED
\* emits a circuit:closed event.
C14_TransitionsEmitEvents ==
    [][/\ (breaker'.state # breaker.state /\ breaker'.state = "OPEN")
            => circuitEvents' = Append(circuitEvents, "circuit:open")
       /\ (breaker'.state # breaker.state /\ breaker'.state = "CLOSED")
            => circuitEvents' = Append(circuitEvents, "circuit:closed")]_vars

\* C18: every success of an operation sets failureCount to 0; so on a
\* breaker that was CLOSED with failureCount 0, after threshold - 1 failing
\* calls, one succeeding call and up to threshold - 1 more failing calls, run
\* one after another, the breaker is CLOSED and failureCount is the number of
\* failures since the success.
C18_SuccessResetsFailureCount ==
    /\ []((/\ streak.prior = breaker.threshold - 1
           /\ streak.fails >= 0
           /\ streak.fails <= breaker.threshold - 1)
            => /\ breaker.state = "CLOSED"
               /\ breaker.failureCount = streak.fails)
    /\ [][\A c \in Callers :
            OperationSucceeds(c) => breaker'.failureCount = 0]_vars

C18_Witness ==
    /\ breaker.threshold = MaxThreshold
    /\ streak.prior = breaker.threshold - 1
    /\ streak.fails = breaker.threshold - 1
    /\ streak.ops = breaker.threshold - 1
    /\ InFlight = {}
    /\ last.kind = "failure"
    /\ breaker.state = "CLOSED"

\* C5: every change of the breaker's state is into OPEN by a failure that
\* brings failureCount to at least threshold, OPEN to HALF_OPEN by the
\* monitoring timer at now >= nextAttempt, or HALF_OPEN to CLOSED by a success.
C5_OnlyLegalTransitions ==
    [][breaker'.state # breaker.state =>
         \/ /\ breaker'.state = "OPEN"
            /\ last'.kind = "failure"
            /\ breaker'.failureCount >= breaker.threshold
         \/ /\ breaker.state = "OPEN"
            /\ breaker'.state = "HALF_OPEN"
            /\ last'.kind = "tick"
            /\ now >= breaker.nextAttempt
         \/ /\ breaker.state = "HALF_OPEN"
            /\ breaker'.state = "CLOSED"
            /\ last'.kind = "success"]_vars

C5_Witness ==
    /\ last.kind = "failure"
    /\ last.pre = "HALF_OPEN"
    /\ breaker.state = "OPEN"
    /\ InFlight # {}

\* every answer the server has given so far is `answer`
AllAnswers(answer) ==
    /\ answers # <<>>
    /\ \A i \in 1..Len(answers) : answers[i] = answer

\* C6: an executeRequest call with retries = R whose every attempt is
\* answered with HTTP 500 issues exactly R + 1 fetch calls (never more on the
\* way) and then rejects with the APIError of the last attempt.
C6_ServerErrorExhaustsRetries ==
    AllAnswers(Response(500)) =>
        /\ fetches <= cfg.retries + 1
        /\ pc = "done" =>
              /\ fetches = cfg.retries + 1
              /\ Len(answers) = cfg.retries + 1
              /\ outcome = [kind |-> "rejected",
                            error |-> APIError(500, cfg.retries + 1)]

C6_Witness ==
    /\ pc = "done"
    /\ cfg.retries = MaxRetries
    /\ AllAnswers(Response(500))
    /\ fetches = MaxRetries + 1
    /\ outcome.kind = "rejected"

FatalClientStatuses == (400..499) \ {401, 429}

\* C7: a request whose first attempt is answered with 404, or any 4xx other
\* than 401 and 429, issues exactly one fetch call, sleeps no backoff and
\* rejects with an APIError carrying the status of the response.
C7_ClientErrorIsNotRetried ==
    (/\ answers # <<>>
     /\ answers[1].kind = "response"
     /\ answers[1].status \in FatalClientStatuses)
        => /\ pc = "done"
           /\ fetches = 1
           /\ sleeps = 0
           /\ outcome = [kind |-> "rejected",
                         error |-> APIError(answers[1].status, 1)]

C7_Witness ==
    /\ pc = "done"
    /\ cfg.retries = MaxRetries
    /\ answers = <<Response(404)>>
    /\ outcome.error.status = 404
    /\ sleeps = 0

\* the server answers 503 three times and then 200
Script503x3Then200 ==
    /\ answers # <<>>
    /\ Len(answers) <= 4
    /\ \A i \in 1..Len(answers) :
          answers[i] = IF i <= 3 THEN Response(503) ELSE Response(200)

\* C10 (as claimed): with maxRetries = 2 and baseRetryDelayMs = 1000 against
\* a server that answers 503 three times and then 200, the caller receives
\* the 200 payload after 3 network attempts.
C10_ResolvesAfterThree503 ==
    (/\ pc = "done"
     /\ cfg.retries = 2
     /\ cfg.retryDelay = 1000
     /\ Script503x3Then200)
        => /\ outcome.kind = "resolved"
           /\ fetches = 3

\* C10 (amended): with maxRetries = 2 and baseRetryDelayMs = 1000 against a
\* server that answers 503 three times and then 200, the 200 is never asked
\* for: the caller's promise rejects with the 503 APIError of the third
\* attempt, after 3 network attempts.
C10_RejectsAfterThree503 ==
    (/\ pc = "done"
     /\ cfg.retries = 2
     /\ cfg.retryDelay = 1000
     /\ Script503x3Then200)
        => /\ outcome = [kind |-> "rejected", error |-> APIError(503, 3)]
           /\ fetches = 3
           /\ Len(answers) = 3

C10_Witness ==
    /\ pc = "done"
    /\ cfg.retries = 2
    /\ cfg.retryDelay = 1000
    /\ answers = <<Response(503), Response(503), Response(503)>>
    /\ outcome.kind = "rejected"
    /\ sleeps = 2

\* the fetch of the running attempt is answered with `answer` in this step
Answered(answer) ==
    /\ pc = "fetch"
    /\ answers' = Append(answers, answer)

\* localStorage holds a user with a refresh token
RefreshTokenStored == storage.user.present /\ storage.user.refreshToken

\* C11: a logical request that is answered 401 while a refresh token is
\* stored makes one call of the refresh endpoint and no fetch of its own
\* meanwhile; a refresh that succeeds re-issues the request once, with _retry
\* set; a 401 to the re-issued request makes no refresh call and no re-issue
\* and the caller's promise rejects. No logical request makes more than
\* one refresh call or one re-issue.
C11_OneRefreshOneReissue ==
    /\ [](/\ refreshes <= 1
          /\ reissues <= refreshes
          /\ depth = 2 => (cfg.retry /\ reissues = 1))
    /\ [][(Answered(Response(401)) /\ ~cfg.retry /\ RefreshTokenStored)
            => /\ pc' = "refresh"
               /\ refreshes' = 1
               /\ reissues' = 0
               /\ fetches' = fetches]_vars
    /\ [][(pc = "refresh" /\ refreshResult' = "ok")
            => /\ reissues' = 1
               /\ refreshes' = 1
               /\ depth' = 2
               /\ cfg'.retry
               /\ fetches' = fetches + 1]_vars
    /\ [][(Answered(Response(401)) /\ depth = 2)
            => /\ refreshes' = refreshes
               /\ reissues' = reissues
               /\ fetches' = fetches
               /\ pc' = "done"
               /\ outcome'.kind = "rejected"]_vars

C11_Witness ==
    /\ pc = "done"
    /\ answers = <<Response(401), Response(401)>>
    /\ refreshResult = "ok"
    /\ refreshes = 1
    /\ reissues = 1
    /\ cfg.retry
    /\ outcome = [kind |-> "rejected", error |-> APIError(401, 2)]

\* the token refresh of the running request fails in this step: the refresh
\* endpoint answers non-2xx, its fetch throws, or a 401 arrives while no
\* refresh token is stored
RefreshFails ==
    \/ pc = "refresh" /\ refreshResult' \in {"RefreshFailed", "TypeError"}
    \/ Answered(Response(401)) /\ ~cfg.retry /\ ~RefreshTokenStored

\* C12: when the token refresh after a 401 fails, the stored user (and cart)
\* is removed, one auth:failure event is emitted, the request is not
\* re-issued, no further attempt or backoff sleep is made and the caller's
\* promise rejects.
C12_FailedRefreshFailsClosed ==
    [][RefreshFails
        => /\ storage' = [user |-> NoUser, cart |-> FALSE]
           /\ authEvents' = authEvents + 1
           /\ reissues' = reissues
           /\ reissues' = 0
           /\ fetches' = fetches
           /\ sleeps' = sleeps
           /\ pc' = "done"
           /\ outcome'.kind = "rejected"]_vars

C12_Witness ==
    /\ pc = "done"
    /\ refreshResult = "RefreshFailed"
    /\ cfg.retries = MaxRetries
    /\ fetches = 1
    /\ storage.user = NoUser
    /\ authEvents = 1
    /\ outcome = [kind |-> "rejected", error |-> RefreshError("RefreshFailed")]

\* the last n elements of a sequence, all of them if it has fewer
LastN(seq, n) ==
    IF Len(seq) <= n THEN seq ELSE SubSeq(seq, Len(seq) - n + 1, Len(seq))

\* C13: requestTimes never holds more than 100 entries and is always the
\* last 100 durations given to updateMetrics (all of them while there are
\* fewer), in the order they were given; an updateMetrics call that finds 100
\* entries removes the first and appends the new duration last.
C13_WindowKeepsLatest100 ==
    /\ [](/\ Len(metrics.requestTimes) <= 100
          /\ metrics.requestTimes = LastN(durations, 100))
    /\ [][(Len(metrics.requestTimes) = 100 /\ Len(durations') = Len(durations) + 1)
            => metrics'.requestTimes =
                   Append(Tail(metrics.requestTimes),
                          durations'[Len(durations')])]_vars

C13_Witness ==
    /\ Len(durations) = 102
    /\ Len(metrics.requestTimes) = 100
    /\ metrics.requestTimes[1] = 3
    /\ metrics.requestTimes[100] = durations[102]
    /\ resets = 0

\* C17: a step that is not a resetMetrics call decreases none of
\* totalRequests, successfulRequests and failedRequests, whatever the order
\* in which the attempts of concurrent requests begin and settle; a
\* resetMetrics call sets the three to 0.
C17_CountersOnlyGrow ==
    /\ [][resets' = resets
            => /\ metrics'.totalRequests >= metrics.totalRequests
               /\ metrics'.successfulRequests >= metrics.successfulRequests
               /\ metrics'.failedRequests >= metrics.failedRequests]_vars
    /\ [][resets' # resets
            => /\ metrics'.totalRequests = 0
               /\ metrics'.successfulRequests = 0
               /\ metrics'.failedRequests = 0]_vars

C17_Witness ==
    /\ resets = 0
    /\ inflight = MaxInflight
    /\ Len(metrics.requestTimes) = 100
    /\ metrics.totalRequests = 104
    /\ metrics.successfulRequests = 101
    /\ metrics.failedRequests = 1

\* the service the request in hand is routed to
Routed == getServiceFromUrl(cfg.url)

\* C15: products, auth and orders each have a breaker; while a request to one
\* service runs, and when it has settled, the breaker of every other service
\* is as it was when the request was made; a request whose url maps to no
\* service is not rejected with the circuit-open error and leaves every
\* breaker as it was.
C15_BreakersArePerService ==
    /\ DOMAIN circuitBreakers = {"products", "auth", "orders"}
    /\ \A s \in Services :
          s # Routed
            => /\ circuitBreakers[s].state = before[s].state
               /\ circuitBreakers[s].failureCount = before[s].failureCount
               /\ circuitBreakers[s].nextAttempt = before[s].nextAttempt
               /\ circuitBreakers[s] = before[s]
    /\ Routed \notin Services
          => /\ outcome.error # CircuitOpenError
             /\ circuitBreakers = before

C15_Witness ==
    /\ pc = "done"
    /\ cfg.url = <<"health">>
    /\ circuitBreakers["products"].state = "OPEN"
    /\ before["products"].state = "OPEN"
    /\ circuitBreakers["orders"].failureCount = 0
    /\ circuitBreakers["auth"].failureCount = 0
    /\ fetches = 1
    /\ outcome = [kind |-> "rejected", error |-> APIError(404, 1)]

\* C16: the client without a telemetry client, given the same requests and
\* the same answers, is at every moment in the same place, has settled its
\* caller's promise alike, has made as many fetch calls to the backend and
\* refresh calls, and has the same breakers, metrics and storage as the client
\* with window.telemetryClient installed, which has sent one trace for every
\* attempt that has settled.
C16_TelemetryDoesNotMatter ==
    /\ telemetry
    /\ ~twin.telemetry
    /\ twin.traces = 0
    /\ traces = metrics.successfulRequests + metrics.failedRequests
    /\ twin.pc = pc
    /\ twin.outcome = outcome
    /\ twin.fetches = fetches
    /\ twin.refreshes = refreshes
    /\ twin.circuitBreakers = circuitBreakers
    /\ twin.metrics = metrics
    /\ twin.storage = storage
    /\ twin = [World EXCEPT !.telemetry = FALSE, !.traces = 0]

C16_Witness ==
    /\ pc = "done"
    /\ served = MaxMixedRequests - 1
    /\ traces >= 4
    /\ twin.traces = 0
    /\ outcome.kind = "resolved"
    /\ twin.outcome.kind = "resolved"
    /\ metrics.failedRequests >= 2
    /\ twin.metrics.failedRequests = metrics.failedRequests

\* every answer so far is an error that shouldRetry accepts
OnlyRetryableAnswers ==
    /\ answers # <<>>
    /\ \A i \in 1..Len(answers) :
          answers[i] \in {Response(500), Response(503), Thrown("AbortError")}

\* C19: while a request to a service is retried after retryable errors its
\* breaker is not touched, and when the last of its retries + 1 attempts has
\* failed too the breaker's failureCount is one more than when the request
\* was made; a request that resolves after failed attempts leaves
\* failureCount 0 and records no failure (lastFailureTime is as it was).
C19_OneBreakerUpdatePerRequest ==
    Routed \in Services =>
        /\ (OnlyRetryableAnswers /\ pc # "done")
              => circuitBreakers = before
        /\ (OnlyRetryableAnswers /\ pc = "done")
              => /\ Len(answers) = cfg.retries + 1
                 /\ outcome.kind = "rejected"
                 /\ circuitBreakers[Routed].failureCount =
                        before[Routed].failureCount + 1
        /\ (pc = "done" /\ outcome.kind = "resolved" /\ Len(answers) > 1)
              => /\ circuitBreakers[Routed].failureCount = 0
                 /\ circuitBreakers[Routed].lastFailureTime =
                        before[Routed].lastFailureTime

C19_Witness ==
    /\ pc = "done"
    /\ Routed = "products"
    /\ cfg.retries = MaxRetries
    /\ Len(answers) = MaxRetries + 1
    /\ AllAnswers(Response(503))
    /\ before["products"].failureCount = 0
    /\ circuitBreakers["products"].failureCount = 1
    /\ circuitBreakers["products"].state = "CLOSED"

\* C20: when threshold requests in a row to one service have each ended in
\* the same error of the backend, the service's breaker is OPEN: so for the
\* APIError of a 404 response as for a timeout or the APIError of a 5xx.
C20_ClientErrorsTripTheBreaker ==
    \A s \in Services :
        (/\ tally[s].n >= circuitBreakers[s].threshold
         /\ \/ tally[s].status = 404
            \/ tally[s].status >= 500
            \/ tally[s].name = "AbortError")
            => /\ circuitBreakers[s].state = "OPEN"
               /\ circuitBreakers[s].failureCount >= circuitBreakers[s].threshold

C20_Witness ==
    /\ server = {Response(404)}
    /\ tally["orders"] = [name |-> "APIError", status |-> 404, n |-> 5]
    /\ circuitBreakers["orders"].state = "OPEN"
    /\ circuitBreakers["orders"].failureCount = 5
    /\ circuitBreakers["products"].state = "CLOSED"
    /\ metrics.failedRequests = 5
    /\ metrics.totalRequests = 5

\* C8: shouldRetry(error) is true exactly for an AbortError, a TypeError, a
\* status in 500..599 and the status 429; it is false for every 4xx status
\* other than 429 and for an error with no status, under any other name.
C8_ShouldRetryClassifies ==
    res.done =>
        /\ res.value <=> \/ arg.name \in {"AbortError", "TypeError"}
                         \/ (arg.hasStatus /\ arg.status \in 500..599)
                         \/ (arg.hasStatus /\ arg.status = 429)
        /\ (/\ arg.name \notin {"AbortError", "TypeError"}
            /\ (~arg.hasStatus \/ arg.status \in (400..499) \ {429}))
               => ~res.value

C8_Witness ==
    /\ res.done
    /\ arg.name = "APIError"
    /\ arg.hasStatus
    /\ arg.status = 429
    /\ res.value

\* C9: for an attempt index n and a base delay b, calculateRetryDelay(n, b)
\* lies between min(b * 2^n, 30000) and min(b * 2^n + 1000, 30000), and
\* never exceeds 30000.
C9_RetryDelayBounds ==
    res.done =>
        /\ Min(arg.baseDelay * Pow2(arg.attempt), 30000) <= res.value
        /\ res.value <= Min(arg.baseDelay * Pow2(arg.attempt) + 1000, 30000)
        /\ res.value <= 30000

C9_Witness ==
    /\ res.done
    /\ arg.attempt = 4
    /\ arg.baseDelay = 1000
    /\ res.value > 16000
    /\ res.value < 17000

\* C26: in every reachable state an OPEN breaker has failureCount >=
\* threshold, also when calls admitted while it was CLOSED complete after it
\* has opened.
C26_OpenMeansThresholdReached ==
    breaker.state = "OPEN" => breaker.failureCount >= breaker.threshold

\* a step that takes the breaker out of OPEN
LeavesOpen == breaker.state = "OPEN" /\ breaker'.state # "OPEN"

\* C21: the breaker leaves OPEN only at or after nextAttempt, and to HALF_OPEN;
\* with the timer firing and the clock running, an OPEN breaker becomes
\* HALF_OPEN (the calls in flight when it opened are finitely many).
C21_OpenLeadsToHalfOpen ==
    /\ [][LeavesOpen => /\ now >= breaker.nextAttempt
                         /\ breaker'.state = "HALF_OPEN"]_vars
    /\ (breaker.state = "OPEN") ~> (breaker.state = "HALF_OPEN")

\* the timer moved the breaker to HALF_OPEN after a call in flight had
\* failed on the OPEN breaker and set nextAttempt again
C21_Witness ==
    /\ breaker.state = "HALF_OPEN"
    /\ last.kind = "tick"
    /\ last.pre = "OPEN"
    /\ breaker.failureCount > breaker.threshold
    /\ now >= breaker.nextAttempt
    /\ now > MaxTime

\* C24: the attempts that have settled never outnumber the attempts counted:
\* successfulRequests + failedRequests <= totalRequests in every reachable
\* state, with equality when no attempt is in flight, also when resetMetrics
\* is called while attempts are in flight.
C24_SettledWithinTotal ==
    /\ metrics.successfulRequests + metrics.failedRequests
          <= metrics.totalRequests
    /\ inflight = 0
          => metrics.successfulRequests + metrics.failedRequests
                = metrics.totalRequests

\* C25: _startTime is set when request() applies the request interceptor and
\* no attempt of that executeRequest call changes it, so the duration
\* recorded for an attempt runs from the start of the logical request (here
\* StartTime, when the caller's request() is made) and includes the earlier
\* attempts and backoff sleeps.
C25_DurationFromRequestStart ==
    /\ [][pc # "request" /\ depth' = depth
            => cfg'.startTime = cfg.startTime]_vars
    /\ [][answers' # answers
            => metrics'.requestTimes[Len(metrics'.requestTimes)]
                  = now' - cfg.startTime]_vars
    /\ [](depth = 1 /\ pc \in {"fetch", "sleep", "refresh"}
            => cfg.startTime = StartTime)

\* the third attempt's duration spans the three fetches and the two sleeps
C25_Witness ==
    /\ pc = "done"
    /\ fetches = 3
    /\ sleeps = 2
    /\ reissues = 0
    /\ Len(metrics.requestTimes) = 3
    /\ metrics.requestTimes[1] = FetchLatency
    /\ metrics.requestTimes[3] = now - StartTime
    /\ metrics.requestTimes[3]
          >= 3 * FetchLatency + DefaultRetryDelay + 2 * DefaultRetryDelay

\* C28: one logical call of request() adds at most 1 to the failureCount of
\* its service's breaker, also when it receives 401, refreshes the token and
\* the re-issued request fails.
C28_AtMostOneFailurePerRequest ==
    pc = "done" /\ Guarded(World)
        => circuitBreakers[ServiceOf(World)].failureCount
              <= before[ServiceOf(World)].failureCount + 1

\* the request re-issued after a refresh is answered 401 again in this step
SecondUnauthorized == Answered(Response(401)) /\ depth = 2

\* C29: handleAuthenticationFailure runs (user and cart removed, auth:failure
\* emitted) when the token refresh failed or the re-issued request was again
\* answered 401, and only then; a re-issued request that fails otherwise
\* leaves the stored session in place.
C29_SessionClearedOnAuthFailureOnly ==
    /\ [][(authEvents' # authEvents \/ storage' = handleAuthenticationFailure(storage))
            <=> (RefreshFails \/ SecondUnauthorized)]_vars
    /\ [][(depth = 2 /\ pc' = "done" /\ ~SecondUnauthorized)
            => storage' = storage]_vars

\* C22: every call of request() settles, given that every fetch returns or
\* is aborted and every sleep ends; it makes at most 2 * (retries + 1)
\* fetches of its url (retries + 1 unless it is re-issued) and at most one
\* fetch of the refresh endpoint.
C22_RequestSettles ==
    /\ <>(pc = "done" /\ outcome.kind \in {"resolved", "rejected"})
    /\ [](/\ fetches <= 2 * (cfg.retries + 1)
          /\ reissues = 0 => fetches <= cfg.retries + 1
          /\ refreshes <= 1)

\* retryable failures, then 401 on the last attempt, a refresh, and a
\* re-issued request that uses up its attempts as well
C22_Witness ==
    /\ pc = "done"
    /\ cfg.retries = MaxRetries
    /\ fetches = 2 * (MaxRetries + 1)
    /\ refreshes = 1
    /\ answers[MaxRetries + 1] = Response(401)
    /\ answers[1] = Response(503)
    /\ outcome.kind = "rejected"

\* the request of caller c is re-issued in this step, and sent
Reissued(c) ==
    /\ requests'[c].reissues = requests[c].reissues + 1
    /\ requests'[c].depth = 2

\* C23: the request re-issued after a successful refresh carries the token
\* that this refresh wrote to storage, not the token the failed request was
\* sent with, whatever other requests read, refreshed or cleared meanwhile;
\* the attempts of the re-issued request keep it.
C23_ReissueCarriesRefreshedToken ==
    /\ [][\A c \in Callers :
            Reissued(c)
                => /\ issued' = issued + 1
                   /\ storage'.user.token = issued'
                   /\ requests'[c].cfg.authorization = issued'
                   /\ requests'[c].cfg.authorization
                         # requests[c].cfg.authorization]_vars
    /\ [](\A c \in Callers :
            requests[c].depth = 2
                => requests[c].cfg.authorization
                      > requests[c].pending.cfg.authorization)

\* the refresh made for another request failed and cleared the session
\* while the refresh for this one was in flight; this one then succeeded
C23_Witness ==
    /\ authEvents = 1
    /\ requests[1].depth = 2
    /\ requests[1].pc = "fetch"
    /\ requests[1].pending.cfg.authorization = 1
    /\ requests[1].cfg.authorization = 2
    /\ storage.user.token = 2
    /\ requests[2].outcome.kind = "rejected"

\* the request of caller c starts a fetch of its url in this step
AttemptStarts(c) == requests'[c].fetches = requests[c].fetches + 1

BreakerOpenFor(c) ==
    /\ Guarded(WorldOf(c))
    /\ circuitBreakers[ServiceOf(WorldOf(c))].state = "OPEN"

\* C27: while the breaker of a service is OPEN no request starts a fetch to
\* that service: not a new call, not a retry attempt of a request in flight,
\* not a request re-issued after a refresh.
C27_NoAttemptWhileOpen ==
    [][\A c \in Callers : AttemptStarts(c) => ~BreakerOpenFor(c)]_vars

\* C27 as it holds: while the breaker is OPEN a new call and a request
\* re-issued after a refresh are rejected without a fetch; the only fetches
\* started are retry attempts of executeRequest loops that were let through
\* before the breaker opened.
C27_OnlyAdmittedRequestsRetryWhileOpen ==
    /\ [][\A c \in Callers :
            (AttemptStarts(c) /\ BreakerOpenFor(c))
                => /\ requests[c].pc = "sleep"
                   /\ requests'[c].attempt = requests[c].attempt + 1]_vars
    /\ [][\A c \in Callers :
            (requests[c].pc = "request" /\ requests'[c] # requests[c]
                /\ BreakerOpenFor(c))
                => /\ requests'[c].fetches = 0
                   /\ requests'[c].outcome
                         = [kind |-> "rejected", error |-> CircuitOpenError]]_vars

\* a retry attempt is in flight on an OPEN breaker that has rejected a new
\* call
C27_Witness ==
    /\ circuitBreakers["products"].state = "OPEN"
    /\ requests[1].pc = "fetch"
    /\ requests[1].attempt = 1
    /\ requests[1].since > circuitBreakers["products"].lastFailureTime
    /\ requests[2].pc = "done"

\* C30: at most one fetch of the refresh endpoint is in flight at any time,
\* and the authentication failure of a request does not remove a session
\* that the refresh of another request stored while it was in flight.
C30_SingleRefreshKeepsSession ==
    /\ [](Cardinality({c \in Callers : requests[c].pc = "refresh"}) <= 1)
    /\ [][\A c \in Callers :
            (requests'[c] # requests[c] /\ authEvents' # authEvents)
                => ~(c \in session.inflight /\ session.by # c)]_vars

====
